---- MODULE Spec2Model ----
(***************************************************************************)
(* Model of src/power_grid_model/core/power_grid_core.py: the loader of    *)
(* the native library, the two binding generators (the make_c_binding      *)
(* decorator and the WrapperFunc functor configured by                     *)
(* PowerGridCore.__init__) and the life cycle of the session handle.       *)
(*                                                                         *)
(* Conventions.                                                            *)
(*  - A Python identifier is written as the sequence of its "_"-separated  *)
(*    words: create_options is <<"create", "options">>, _handle is         *)
(*    <<"", "handle">>. `"destroy" in name`, `name.startswith("_")` and    *)
(*    the f"PGM_{name}" prefix are computed on that form.                  *)
(*  - A value crossing the boundary is a record [t |-> type, v |-> seq].   *)
(*    Host text is [t |-> "str", v |-> code points]; bytes are             *)
(*    [t |-> "bytes", v |-> octets]; a null char pointer (Python None      *)
(*    under restype c_char_p) is [t |-> "NULL", v |-> <<>>].               *)
(*  - A handle value is the ordinal of the PGM_create_handle call that     *)
(*    returned it, so a handle names one native resource.                  *)
(*  - trace holds the calls the most recent operation made to function     *)
(*    objects of a loaded library, in order.                               *)
(***************************************************************************)
EXTENDS Integers, Sequences, FiniteSets

(* ------------------------------ bounds -------------------------------- *)
MaxSessions == 2
MaxLoads == 2

(* --------------------------- type tables ------------------------------ *)
\* _ARGS_TYPE_MAPPING = {str: c_char_p, int: IdxC, float: c_double}
_ARGS_TYPE_MAPPING ==
    [x \in {"str", "int", "float"} |->
        CASE x = "str" -> "c_char_p"
          [] x = "int" -> "IdxC"
          [] x = "float" -> "c_double"]

\* _ARGS_TYPE_MAPPING.get(x, x)
MapType(x) == IF x \in DOMAIN _ARGS_TYPE_MAPPING THEN _ARGS_TYPE_MAPPING[x] ELSE x

\* functions with size_t return
_FUNC_SIZE_T_RES ==
    { <<"meta", "class", "size">>,
      <<"meta", "class", "alignment">>,
      <<"meta", "attribute", "offset">> }

\* PowerGridCore.__annotations__, in declaration order: name and the
\* __args__ of its Callable (parameter types followed by the return type;
\* typing stores a None return as NoneType). _handle carries a plain type.
Annotations ==
    << [name |-> <<"", "handle">>, args |-> <<"HandlePtr">>],
       [name |-> <<"create", "options">>, args |-> <<"OptionsPtr">>],
       [name |-> <<"destroy", "options">>, args |-> <<"OptionsPtr", "NoneType">>],
       [name |-> <<"set", "calculation", "type">>, args |-> <<"OptionsPtr", "int", "NoneType">>],
       [name |-> <<"set", "calculation", "method">>, args |-> <<"OptionsPtr", "int", "NoneType">>],
       [name |-> <<"set", "symmetric">>, args |-> <<"OptionsPtr", "int", "NoneType">>],
       [name |-> <<"set", "err", "tol">>, args |-> <<"OptionsPtr", "float", "NoneType">>],
       [name |-> <<"set", "max", "iter">>, args |-> <<"OptionsPtr", "int", "NoneType">>],
       [name |-> <<"set", "threading">>, args |-> <<"OptionsPtr", "int", "NoneType">>],
       [name |-> <<"create", "model">>,
        args |-> <<"float", "int", "CharDoublePtr", "IdxPtr", "VoidDoublePtr", "ModelPtr">>],
       [name |-> <<"update", "model">>,
        args |-> <<"ModelPtr", "int", "CharDoublePtr", "IdxPtr", "VoidDoublePtr", "NoneType">>],
       [name |-> <<"copy", "model">>, args |-> <<"ModelPtr", "ModelPtr">>],
       [name |-> <<"get", "indexer">>,
        args |-> <<"ModelPtr", "str", "int", "IDPtr", "IdxPtr", "NoneType">>],
       [name |-> <<"destroy", "model">>, args |-> <<"ModelPtr", "NoneType">>] >>

\* The methods decorated with make_c_binding, in declaration order: name,
\* the annotations of the signature's parameters (self first, unannotated)
\* and the return annotation.
Methods ==
    << [name |-> <<"error", "code">>, params |-> <<"self">>, ret |-> "int"],
       [name |-> <<"error", "message">>, params |-> <<"self">>, ret |-> "str"],
       [name |-> <<"n", "failed", "scenarios">>, params |-> <<"self">>, ret |-> "int"],
       [name |-> <<"failed", "scenarios">>, params |-> <<"self">>, ret |-> "IdxPtr"],
       [name |-> <<"batch", "errors">>, params |-> <<"self">>, ret |-> "CharDoublePtr"],
       [name |-> <<"clear", "error">>, params |-> <<"self">>, ret |-> "None"],
       [name |-> <<"is", "batch", "independent">>, params |-> <<"self">>, ret |-> "int"],
       [name |-> <<"is", "batch", "cache", "topology">>, params |-> <<"self">>, ret |-> "int"],
       [name |-> <<"meta", "n", "datasets">>, params |-> <<"self">>, ret |-> "int"],
       [name |-> <<"meta", "dataset", "name">>, params |-> <<"self", "int">>, ret |-> "str"],
       [name |-> <<"meta", "n", "components">>, params |-> <<"self", "str">>, ret |-> "int"],
       [name |-> <<"meta", "component", "name">>, params |-> <<"self", "str", "int">>, ret |-> "str"],
       [name |-> <<"meta", "component", "alignment">>, params |-> <<"self", "str", "str">>, ret |-> "int"],
       [name |-> <<"meta", "component", "size">>, params |-> <<"self", "str", "str">>, ret |-> "int"],
       [name |-> <<"meta", "n", "attributes">>, params |-> <<"self", "str", "str">>, ret |-> "int"],
       [name |-> <<"meta", "attribute", "name">>, params |-> <<"self", "str", "str", "int">>, ret |-> "str"],
       [name |-> <<"meta", "attribute", "ctype">>, params |-> <<"self", "str", "str", "str">>, ret |-> "str"],
       [name |-> <<"meta", "attribute", "offset">>, params |-> <<"self", "str", "str", "str">>, ret |-> "int"],
       [name |-> <<"is", "little", "endian">>, params |-> <<"self">>, ret |-> "int"],
       [name |-> <<"calculate">>,
        params |-> <<"self", "ModelPtr", "OptionsPtr", "int", "CharDoublePtr", "VoidDoublePtr",
                     "int", "int", "CharDoublePtr", "IdxPtr", "IdxDoublePtr", "VoidDoublePtr">>,
        ret |-> "None"] >>

(* ------------------------- names and values --------------------------- *)
\* f"PGM_{name}"
PGM(name) == <<"PGM">> \o name

\* "destroy" in name
HasDestroy(name) == \E i \in DOMAIN name : name[i] = "destroy"

\* name.startswith("_")
StartsWithUnderscore(name) == Len(name) > 0 /\ name[1] = ""

Min(a, b) == IF a < b THEN a ELSE b

\* str.encode(): UTF-8, one code point after the other
RECURSIVE Utf8(_)
Utf8(cps) ==
    IF cps = <<>> THEN <<>>
    ELSE LET c == Head(cps)
         IN (IF c < 128 THEN <<c>>
             ELSE <<192 + (c \div 64), 128 + (c % 64)>>) \o Utf8(Tail(cps))

encode(arg) == [t |-> "bytes", v |-> Utf8(arg.v)]

\* bytes.decode(): the inverse of Utf8 on well-formed input
RECURSIVE Utf8Decode(_)
Utf8Decode(bs) ==
    IF bs = <<>> THEN <<>>
    ELSE IF Head(bs) < 128 THEN <<Head(bs)>> \o Utf8Decode(Tail(bs))
    ELSE <<(Head(bs) - 192) * 64 + (bs[2] - 128)>> \o Utf8Decode(Tail(Tail(bs)))

\* res.decode() on what ctypes hands back for restype c_char_p: bytes, or
\* None for a null pointer, which has no decode attribute
decode(res) ==
    IF res.t = "NULL" THEN [t |-> "AttributeError", v |-> <<>>]
    ELSE [t |-> "str", v |-> Utf8Decode(res.v)]

HandleVal(h) == [t |-> "HandlePtr", v |-> <<h>>]

(* ------------------------- the native library ------------------------- *)
CreateHandle == <<"PGM", "create", "handle">>
DestroyHandle == <<"PGM", "destroy", "handle">>

WrapperNames ==
    { Annotations[i].name : i \in { j \in DOMAIN Annotations :
                                      ~StartsWithUnderscore(Annotations[j].name) } }
MethodNames == { Methods[i].name : i \in DOMAIN Methods }

\* the symbols the shared library exports
EntryPoints ==
    {CreateHandle, DestroyHandle} \cup { PGM(n) : n \in WrapperNames \cup MethodNames }

\* a foreign function object as ctypes first hands it out: no argtypes,
\* restype c_int, never written
NoArgtypes == <<"<not set>">>
FreshFunc == [argtypes |-> NoArgtypes, restype |-> "c_int", writes |-> 0]

\* the assignment of argtypes and restype to one function object
SetTyping(f, argtypes, restype) ==
    [argtypes |-> argtypes, restype |-> restype, writes |-> f.writes + 1]

\* a library object keeps the function objects fetched from it so far
NoLib == [id |-> 0, file |-> "", funcs |-> [ep \in {} |-> FreshFunc]]

\* getattr(lib, ep): the function object kept, or a fresh one
FuncOf(funcs, ep) == IF ep \in DOMAIN funcs THEN funcs[ep] ELSE FreshFunc

\* mutant of _load_core: the destroy-handle typing is left out
_load_core_no_destroy(system, id) ==
    [id |-> id,
     file |-> IF system = "Windows" THEN "_power_grid_core.dll" ELSE "_power_grid_core.so",
     funcs |-> [ep \in {CreateHandle} |-> SetTyping(FreshFunc, <<>>, "HandlePtr")]]

\* _load_core(): the CDLL object it returns, the id-th the process loaded
_load_core(system, id) ==
    [id |-> id,
     file |-> IF system = "Windows" THEN "_power_grid_core.dll" ELSE "_power_grid_core.so",
     funcs |-> [ep \in {CreateHandle, DestroyHandle} |->
                  IF ep = CreateHandle THEN SetTyping(FreshFunc, <<>>, "HandlePtr")
                  ELSE SetTyping(FreshFunc, <<"HandlePtr">>, "None")]]

(* ------------------------- binding generators ------------------------- *)
MapTypes(ts) == [i \in DOMAIN ts |-> MapType(ts[i])]

\* s[:-1]
AllButLast(s) == SubSeq(s, 1, Len(s) - 1)
\* s[-1]
Last(s) == s[Len(s)]

\* the size_t override both generators apply to the mapped return type
SizeTOverride(name, c_restype) ==
    IF c_restype = "IdxC" /\ name \in _FUNC_SIZE_T_RES THEN "c_size_t" ELSE c_restype

\* the argtypes written to the entry point: with the handle pointer first,
\* except for a destroy function
NativeArgtypes(name, c_argtypes) ==
    IF HasDestroy(name) THEN c_argtypes ELSE <<"HandlePtr">> \o c_argtypes

\* make_c_binding(func), lines 89-107: the types it derives from the
\* signature of method m and writes to PGM_<name>
make_c_binding(m) ==
    LET py_argtypes == Tail(m.params)
        c_argtypes == MapTypes(py_argtypes)
        c_restype == SizeTOverride(m.name, MapType(m.ret))
    IN [name |-> m.name,
        c_argtypes |-> c_argtypes,
        c_restype |-> c_restype,
        argtypes |-> NativeArgtypes(m.name, c_argtypes),
        restype |-> c_restype]

\* mutant of init_binding: the NoneType return annotation is written to
\* the entry point as it is
init_binding_NoneType(a) ==
    LET py_argtypes == AllButLast(a.args)
        py_restype == Last(a.args)
        c_argtypes == MapTypes(py_argtypes)
        c_restype == SizeTOverride(a.name, MapType(py_restype))
    IN [name |-> a.name,
        c_argtypes |-> c_argtypes,
        c_restype |-> c_restype,
        argtypes |-> NativeArgtypes(a.name, c_argtypes),
        restype |-> c_restype]

\* PowerGridCore.__init__, lines 200-217: the types it derives from
\* annotation a and writes to PGM_<name>
init_binding(a) ==
    LET py_argtypes == AllButLast(a.args)
        py_restype == Last(a.args)
        c_argtypes == MapTypes(py_argtypes)
        sized == SizeTOverride(a.name, MapType(py_restype))
        c_restype == IF sized = "NoneType" THEN "None" ELSE sized
    IN [name |-> a.name,
        c_argtypes |-> c_argtypes,
        c_restype |-> c_restype,
        argtypes |-> NativeArgtypes(a.name, c_argtypes),
        restype |-> c_restype]

MethodOf(name) == Methods[CHOOSE i \in DOMAIN Methods : Methods[i].name = name]
AnnotationOf(name) ==
    Annotations[CHOOSE i \in DOMAIN Annotations : Annotations[i].name = name]

\* what each generator derives for each name it declares, computed once
MethodBindings == [n \in MethodNames |-> make_c_binding(MethodOf(n))]
AnnotationBindings == [n \in WrapperNames |-> init_binding(AnnotationOf(n))]

\* zip(args, c_argtypes) with the text arguments encoded
Marshal(args, c_argtypes) ==
    [i \in 1..Min(Len(args), Len(c_argtypes)) |->
        IF c_argtypes[i] = "c_char_p" THEN encode(args[i]) ELSE args[i]]

\* cbind_func(self, *args), lines 110-119: the inputs of the native call
cbind_inputs(name, c_argtypes, self_handle, args) ==
    (IF HasDestroy(name) THEN <<>> ELSE <<HandleVal(self_handle)>>)
        \o Marshal(args, c_argtypes)

\* cbind_func, lines 122-125: what the caller gets for native result res
cbind_result(c_restype, res) == IF c_restype = "c_char_p" THEN decode(res) ELSE res

\* mutant of WrapperFunc_inputs: the handle is passed to destroy functions too
WrapperFunc_inputs_handle_first(w, args) ==
    <<HandleVal(w.handle)>> \o Marshal(args, w.c_argtypes)

\* WrapperFunc.__call__, lines 152-160, on the functor w
WrapperFunc_inputs(w, args) ==
    (IF HasDestroy(w.name) THEN <<>> ELSE <<HandleVal(w.handle)>>)
        \o Marshal(args, w.c_argtypes)

\* WrapperFunc.__call__, lines 163-166
WrapperFunc_result(w, res) == IF w.c_restype = "c_char_p" THEN decode(res) ELSE res

\* WrapperFunc.__init__: the functor built for annotation-declared name
WrapperFunc(s, handle, name, c_argtypes, c_restype) ==
    [path |-> "WrapperFunc", s |-> s, name |-> name, handle |-> handle,
     c_argtypes |-> c_argtypes, c_restype |-> c_restype]

\* the bound method the attribute lookup session.name yields for a
\* decorated method: cbind_func with its closure, bound to the session
BoundMethod(s, name) ==
    LET b == MethodBindings[name]
    IN [path |-> "cbind_func", s |-> s, name |-> name, handle |-> 0,
        c_argtypes |-> b.c_argtypes, c_restype |-> b.c_restype]

NoCallable ==
    [path |-> "none", s |-> 0, name |-> <<>>, handle |-> 0,
     c_argtypes |-> <<>>, c_restype |-> ""]

(* ------------------------------- state -------------------------------- *)
VARIABLES
    system,     \* platform.system()
    pc,         \* how far the module's top-level code has run
    nLoads,     \* number of CDLL(...) loads the process has made
    _CDLL,      \* the module global: the library object all bindings use
    lastLib,    \* the library object the most recent _load_core() returned
    classAttrs, \* names the PowerGridCore class body has bound to cbind_func
    sess,       \* the PowerGridCore objects: state, _handle, instance attributes
    nCreated,   \* number of PGM_create_handle calls made
    created,    \* handle -> number of PGM_create_handle calls that returned it
    destroyed,  \* handle -> number of PGM_destroy_handle calls that received it
    held,       \* the callable the caller fetched from a session and still holds
    lastOp,     \* the most recent operation and its outcome
    trace       \* the native calls the most recent operation made

vars == <<system, pc, nLoads, _CDLL, lastLib, classAttrs, sess, nCreated,
          created, destroyed, held, lastOp, trace>>

Sessions == 1..MaxSessions
Handles == 1..MaxSessions

NoValue == [t |-> "", v |-> <<>>]
NoneValue == [t |-> "None", v |-> <<>>]

\* the record of an operation, before its own fields are filled in
Op(kind) ==
    [kind |-> kind, s |-> 0, name |-> <<>>, path |-> "", args |-> <<>>,
     nres |-> NoValue, out |-> NoValue, lib |-> 0]

NativeCall(fn, args) == [fn |-> fn, args |-> args, lib |-> _CDLL.id]

NoSession == [st |-> "none", _handle |-> 0, attrs |-> [n \in WrapperNames |-> NoCallable]]

Init ==
    /\ system \in {"Windows", "Linux"}
    /\ pc = "start"
    /\ nLoads = 0
    /\ _CDLL = NoLib
    /\ lastLib = NoLib
    /\ classAttrs = {}
    /\ sess = [s \in Sessions |-> NoSession]
    /\ nCreated = 0
    /\ created = [h \in Handles |-> 0]
    /\ destroyed = [h \in Handles |-> 0]
    /\ held = NoCallable
    /\ lastOp = Op("start")
    /\ trace = <<>>

(* ------------------------ module top-level code ----------------------- *)
\* line 73: _CDLL: CDLL = _load_core()
ModuleLoad ==
    /\ pc = "start"
    /\ nLoads' = nLoads + 1
    /\ lastLib' = _load_core(system, nLoads + 1)
    /\ _CDLL' = lastLib'
    /\ pc' = "loaded"
    /\ lastOp' = [Op("load_core") EXCEPT !.lib = nLoads + 1]
    /\ trace' = <<>>
    /\ UNCHANGED <<system, classAttrs, sess, nCreated, created, destroyed, held>>

\* the typing make_c_binding writes while the class body is evaluated
DecorateAll(funcs) ==
    [ep \in DOMAIN funcs \cup { PGM(n) : n \in MethodNames } |->
        IF \E n \in MethodNames : ep = PGM(n)
        THEN LET n == CHOOSE n \in MethodNames : ep = PGM(n)
                 b == MethodBindings[n]
             IN SetTyping(FuncOf(funcs, ep), b.argtypes, b.restype)
        ELSE funcs[ep]]

\* lines 235-328: the class body applies make_c_binding to every decorated method
ClassBody ==
    /\ pc = "loaded"
    /\ _CDLL' = [_CDLL EXCEPT !.funcs = DecorateAll(_CDLL.funcs)]
    /\ classAttrs' = MethodNames
    /\ pc' = "class"
    /\ lastOp' = Op("class")
    /\ trace' = <<>>
    /\ UNCHANGED <<system, nLoads, lastLib, sess, nCreated, created, destroyed, held>>

(* ----------------------------- sessions ------------------------------- *)
\* __new__, line 193: the handle PGM_create_handle() returns, a new resource
NewHandle == nCreated + 1

\* mutant of InitFuncs: an entry point some session configured before is
\* left alone
InitFuncsOnce(funcs) ==
    [ep \in DOMAIN funcs \cup { PGM(n) : n \in WrapperNames } |->
        IF ep \notin DOMAIN funcs
        THEN LET n == CHOOSE n \in WrapperNames : ep = PGM(n)
                 b == AnnotationBindings[n]
             IN SetTyping(FreshFunc, b.argtypes, b.restype)
        ELSE funcs[ep]]

\* __init__, lines 197-217: the typing written for every annotation whose
\* name does not start with "_"
InitFuncs(funcs) ==
    [ep \in DOMAIN funcs \cup { PGM(n) : n \in WrapperNames } |->
        IF \E n \in WrapperNames : ep = PGM(n)
        THEN LET n == CHOOSE n \in WrapperNames : ep = PGM(n)
                 b == AnnotationBindings[n]
             IN SetTyping(FuncOf(funcs, ep), b.argtypes, b.restype)
        ELSE funcs[ep]]

\* __init__, lines 219-223: the functors set on the instance
InstanceAttrs(s, handle) ==
    [n \in WrapperNames |->
        LET b == AnnotationBindings[n]
        IN WrapperFunc(s, handle, n, b.c_argtypes, b.c_restype)]

\* PowerGridCore(): __new__ then __init__ on the object s
PowerGridCore(s) ==
    /\ sess[s].st = "none"
    /\ nCreated' = nCreated + 1
    /\ created' = [created EXCEPT ![NewHandle] = @ + 1]
    /\ trace' = <<NativeCall(CreateHandle, <<>>)>>
    /\ _CDLL' = [_CDLL EXCEPT !.funcs = InitFuncs(_CDLL.funcs)]
    /\ sess' = [sess EXCEPT ![s] = [st |-> "live", _handle |-> NewHandle,
                                    attrs |-> InstanceAttrs(s, NewHandle)]]
    /\ lastOp' = [Op("construct") EXCEPT !.s = s]
    /\ UNCHANGED <<system, nLoads, lastLib, classAttrs, destroyed, held>>

\* line 332: power_grid_core = PowerGridCore()
ModuleInstance ==
    /\ pc = "class"
    /\ PowerGridCore(1)
    /\ pc' = "ready"

\* a caller constructs a further session
Construct(s) ==
    /\ pc = "ready"
    /\ \A r \in Sessions : r < s => sess[r].st # "none"
    /\ PowerGridCore(s)
    /\ pc' = pc

\* mutant of __del__: the handle is not handed to the native library
__del__leak(s) ==
    /\ pc = "ready"
    /\ s # 1
    /\ sess[s].st = "live"
    /\ ~(held.path = "cbind_func" /\ held.s = s)
    /\ trace' = <<>>
    /\ sess' = [sess EXCEPT ![s].st = "dead"]
    /\ lastOp' = [Op("del") EXCEPT !.s = s]
    /\ UNCHANGED <<system, pc, nLoads, _CDLL, lastLib, classAttrs, nCreated,
                   created, destroyed, held>>

\* __del__, lines 225-226: runs when the last reference to the session
\* goes; a bound method the caller holds keeps its session alive, a
\* WrapperFunc does not. The module's own instance (session 1) stays
\* referenced by the module global.
__del__(s) ==
    /\ pc = "ready"
    /\ s # 1
    /\ sess[s].st = "live"
    /\ ~(held.path = "cbind_func" /\ held.s = s)
    /\ trace' = <<NativeCall(DestroyHandle, <<HandleVal(sess[s]._handle)>>)>>
    /\ destroyed' = [destroyed EXCEPT ![sess[s]._handle] = @ + 1]
    /\ sess' = [sess EXCEPT ![s].st = "dead"]
    /\ lastOp' = [Op("del") EXCEPT !.s = s]
    /\ UNCHANGED <<system, pc, nLoads, _CDLL, lastLib, classAttrs, nCreated,
                   created, held>>

\* mutant of __copy__: the default shallow copy, a second object with the
\* same _handle and the same functors
__copy__shallow(s) ==
    /\ pc = "ready"
    /\ sess[s].st = "live"
    /\ \E r \in Sessions :
        /\ sess[r].st = "none"
        /\ \A q \in Sessions : q < r => sess[q].st # "none"
        /\ sess' = [sess EXCEPT ![r] = sess[s]]
    /\ trace' = <<>>
    /\ lastOp' = [Op("copy") EXCEPT !.s = s, !.out = [t |-> "PowerGridCore", v |-> <<>>]]
    /\ UNCHANGED <<system, pc, nLoads, _CDLL, lastLib, classAttrs, nCreated,
                   created, destroyed, held>>

NotImplementedError == [t |-> "NotImplementedError", v |-> <<>>]

\* __copy__, lines 229-230
__copy__(s) ==
    /\ pc = "ready"
    /\ sess[s].st = "live"
    /\ trace' = <<>>
    /\ lastOp' = [Op("copy") EXCEPT !.s = s, !.out = NotImplementedError]
    /\ UNCHANGED <<system, pc, nLoads, _CDLL, lastLib, classAttrs, sess, nCreated,
                   created, destroyed, held>>

\* __deepcopy__, lines 232-233
__deepcopy__(s) ==
    /\ pc = "ready"
    /\ sess[s].st = "live"
    /\ trace' = <<>>
    /\ lastOp' = [Op("deepcopy") EXCEPT !.s = s, !.out = NotImplementedError]
    /\ UNCHANGED <<system, pc, nLoads, _CDLL, lastLib, classAttrs, sess, nCreated,
                   created, destroyed, held>>

(* --------------------------- binding calls ---------------------------- *)
\* session.name, fetched into the caller's free variable: a functor set by
\* __init__ for an annotation-declared name, a bound cbind_func for a
\* decorated method
GetAttr(s, name) ==
    /\ pc = "ready"
    /\ held = NoCallable
    /\ sess[s].st = "live"
    /\ held' = IF name \in WrapperNames THEN sess[s].attrs[name] ELSE BoundMethod(s, name)
    /\ trace' = <<>>
    /\ lastOp' = [Op("getattr") EXCEPT !.s = s, !.name = name]
    /\ UNCHANGED <<system, pc, nLoads, _CDLL, lastLib, classAttrs, sess, nCreated,
                   created, destroyed>>

\* the caller drops the callable
Release ==
    /\ pc = "ready"
    /\ held # NoCallable
    /\ held' = NoCallable
    /\ trace' = <<>>
    /\ lastOp' = Op("release")
    /\ UNCHANGED <<system, pc, nLoads, _CDLL, lastLib, classAttrs, sess, nCreated,
                   created, destroyed>>

\* the declared parameter types of every operation
DeclaredTypes ==
    [n \in WrapperNames \cup MethodNames |->
        IF n \in WrapperNames THEN AllButLast(AnnotationOf(n).args)
        ELSE Tail(MethodOf(n).params)]

\* the parameter types a caller reads off the declaration of callable c
DeclaredParams(c) == DeclaredTypes[c.name]

\* the values a caller passes: one of two values of each declared type
ArgValue(pytype, variant) ==
    CASE pytype = "str" -> [t |-> "str", v |-> IF variant = 1 THEN <<65>> ELSE <<233, 65>>]
      [] pytype = "int" -> [t |-> "int", v |-> <<variant - 1>>]
      [] OTHER -> [t |-> pytype, v |-> <<variant>>]

\* an argument list for the declared types, delta arguments longer
Args(pytypes, variant, delta) ==
    [i \in 1..(Len(pytypes) + delta) |->
        IF i <= Len(pytypes) THEN ArgValue(pytypes[i], variant)
        ELSE [t |-> "int", v |-> <<variant>>]]

\* what the foreign function object can hand back under its restype
NativeResults(restype) ==
    CASE restype = "c_char_p" ->
            { [t |-> "NULL", v |-> <<>>],
              [t |-> "bytes", v |-> <<65>>],
              [t |-> "bytes", v |-> <<195, 169, 65>>] }
      [] restype \in {"IdxC", "c_size_t"} -> { [t |-> "int", v |-> <<n>>] : n \in {0, 1} }
      [] restype = "None" -> { NoneValue }
      [] OTHER -> { [t |-> restype, v |-> <<1>>] }

\* the inputs callable c passes for args: the functor uses the handle it
\* captured, the bound method reads self._handle
CallInputs(c, args) ==
    IF c.path = "WrapperFunc" THEN WrapperFunc_inputs(c, args)
    ELSE cbind_inputs(c.name, c.c_argtypes, sess[c.s]._handle, args)

CallResult(c, res) ==
    IF c.path = "WrapperFunc" THEN WrapperFunc_result(c, res)
    ELSE cbind_result(c.c_restype, res)

\* mutant of CallTrace: the error state is cleared before every call
CallTraceClearFirst(c, args) ==
    << NativeCall(PGM(<<"clear", "error">>), <<HandleVal(sess[c.s]._handle)>>),
       NativeCall(PGM(c.name), CallInputs(c, args)) >>

\* lines 121 and 162: the one call to the function object PGM_<name>
CallTrace(c, args) == <<NativeCall(PGM(c.name), CallInputs(c, args))>>

\* held(*args): WrapperFunc.__call__ or cbind_func
Call(variant, delta) ==
    /\ pc = "ready"
    /\ held # NoCallable
    /\ Len(DeclaredParams(held)) + delta >= 0
    /\ \E nres \in NativeResults(FuncOf(_CDLL.funcs, PGM(held.name)).restype) :
        LET args == Args(DeclaredParams(held), variant, delta)
        IN /\ trace' = CallTrace(held, args)
           /\ lastOp' = [Op("call") EXCEPT !.s = held.s, !.name = held.name,
                                          !.path = held.path, !.args = args,
                                          !.nres = nres, !.out = CallResult(held, nres)]
    /\ UNCHANGED <<system, pc, nLoads, _CDLL, lastLib, classAttrs, sess, nCreated,
                   created, destroyed, held>>

\* _load_core() invoked again, by a caller of the module-level function
load_core ==
    /\ pc = "ready"
    /\ nLoads < MaxLoads
    /\ nLoads' = nLoads + 1
    /\ lastLib' = _load_core(system, nLoads + 1)
    /\ lastOp' = [Op("load_core") EXCEPT !.lib = nLoads + 1]
    /\ trace' = <<>>
    /\ UNCHANGED <<system, pc, _CDLL, classAttrs, sess, nCreated, created,
                   destroyed, held>>

Next ==
    \/ ModuleLoad
    \/ ClassBody
    \/ ModuleInstance
    \/ \E s \in Sessions : Construct(s)
    \/ \E s \in Sessions : __del__(s)
    \/ \E s \in Sessions : __copy__(s)
    \/ \E s \in Sessions : __deepcopy__(s)
    \/ \E s \in Sessions, name \in WrapperNames \cup MethodNames : GetAttr(s, name)
    \/ Release
    \/ \E variant \in {1, 2}, delta \in {-1, 0, 1} : Call(variant, delta)
    \/ load_core

Spec == Init /\ [][Next]_vars

(* ------------------------------ claims -------------------------------- *)
\* the declared return type of every operation, None written as "None"
DeclaredRet ==
    [n \in WrapperNames \cup MethodNames |->
        IF n \in WrapperNames
        THEN (IF Last(AnnotationOf(n).args) = "NoneType" THEN "None"
              ELSE Last(AnnotationOf(n).args))
        ELSE MethodOf(n).ret]

Operations == WrapperNames \cup MethodNames

\* the handles among the arguments of a native call
HandlesIn(call) ==
    { call.args[i].v[1] : i \in { j \in DOMAIN call.args : call.args[j].t = "HandlePtr" } }

\* C1: once a session's teardown has passed its handle to
\* PGM_destroy_handle, no later native call receives that handle, whichever
\* way the binding was reached (a functor fetched before teardown included).
C1_NoUseAfterDestroy ==
    \A i \in DOMAIN trace :
        trace[i].fn # DestroyHandle =>
            \A h \in HandlesIn(trace[i]) : destroyed[h] = 0

\* C2: per session, PGM_create_handle is called exactly once, during
\* construction and before any binding of the session can be invoked;
\* PGM_destroy_handle is called exactly once, at teardown, with the handle
\* create returned for that session; two sessions never hold the same
\* handle; destroy calls for a handle are at most 1 and at most its creates.
C2_HandleLifecycle ==
    /\ \A s \in Sessions :
          sess[s].st # "none" =>
              /\ sess[s]._handle \in Handles
              /\ created[sess[s]._handle] = 1
              /\ destroyed[sess[s]._handle] = IF sess[s].st = "dead" THEN 1 ELSE 0
    /\ \A s, r \in Sessions :
          (s # r /\ sess[s].st # "none" /\ sess[r].st # "none")
              => sess[s]._handle # sess[r]._handle
    /\ nCreated = Cardinality({ s \in Sessions : sess[s].st # "none" })
    /\ \A h \in Handles : destroyed[h] <= 1 /\ destroyed[h] <= created[h]
    /\ lastOp.kind = "construct" =>
          /\ Len(trace) = 1 /\ trace[1].fn = CreateHandle /\ trace[1].args = <<>>
          /\ sess[lastOp.s]._handle = nCreated
    /\ lastOp.kind = "del" =>
          trace = << [fn |-> DestroyHandle,
                      args |-> <<HandleVal(sess[lastOp.s]._handle)>>,
                      lib |-> _CDLL.id] >>
    /\ held # NoCallable =>
          /\ sess[held.s].st # "none"
          /\ created[sess[held.s]._handle] = 1
    /\ lastOp.kind = "call" => \A h \in HandlesIn(trace[1]) : created[h] = 1

C2_Witness ==
    /\ lastOp.kind = "del"
    /\ sess[lastOp.s].st = "dead"
    /\ destroyed[sess[lastOp.s]._handle] = 1
    /\ sess[1].st = "live"

\* C3: a copy or deep copy of a session ends in NotImplementedError, makes
\* no native call, creates no second session, and leaves the session, its
\* handle and its bindings as they were and usable.
C3_CopyRefused ==
    [][ lastOp'.kind \in {"copy", "deepcopy"} =>
            /\ lastOp'.out = NotImplementedError
            /\ trace' = <<>>
            /\ sess' = sess
            /\ sess'[lastOp'.s].st = "live"
            /\ nCreated' = nCreated /\ created' = created /\ destroyed' = destroyed
            /\ _CDLL' = _CDLL /\ classAttrs' = classAttrs /\ held' = held ]_vars

C3_Witness ==
    /\ lastOp.kind \in {"copy", "deepcopy"}
    /\ lastOp.out = NotImplementedError
    /\ lastOp.s = 2
    /\ sess[2].st = "live"

\* the three size, alignment and offset queries the session declares
SizeQueries ==
    { <<"meta", "component", "size">>,
      <<"meta", "component", "alignment">>,
      <<"meta", "attribute", "offset">> }

\* C4: every operation's configured return type is the mapping image of its
\* declared return type, except that the three size, alignment and offset
\* queries are configured with c_size_t; every other index-returning
\* operation is configured with IdxC.
C4_ReturnTypes ==
    pc = "ready" =>
        \A n \in Operations :
            _CDLL.funcs[PGM(n)].restype =
                IF n \in SizeQueries THEN "c_size_t"
                ELSE IF DeclaredRet[n] = "int" THEN "IdxC"
                ELSE IF DeclaredRet[n] = "str" THEN "c_char_p"
                ELSE IF DeclaredRet[n] = "float" THEN "c_double"
                ELSE DeclaredRet[n]

\* the operations whose name signals a destructor
Destructors == { <<"destroy", "options">>, <<"destroy", "model">> }

\* the caller's arguments as they cross: text as its UTF-8 bytes, any
\* other value as it is
Crossed(n, args) ==
    [i \in DOMAIN args |->
        IF DeclaredTypes[n][i] = "str" THEN [t |-> "bytes", v |-> Utf8(args[i].v)]
        ELSE args[i]]

\* C5: a call with as many arguments as declared passes, for a destructor,
\* the caller's arguments in order and no session handle, and otherwise
\* the owning session's handle followed by the caller's arguments in
\* order; the values passed match the argument typing configured for the
\* entry point in number and order.
C5_NativeArguments ==
    (lastOp.kind = "call" /\ Len(lastOp.args) = Len(DeclaredTypes[lastOp.name])) =>
        LET n == lastOp.name
            typing == _CDLL.funcs[PGM(n)].argtypes
            mapped == MapTypes(DeclaredTypes[n])
            own == HandleVal(sess[lastOp.s]._handle)
        IN /\ Len(trace) = 1
           /\ trace[1].fn = PGM(n)
           /\ IF n \in Destructors
              THEN /\ trace[1].args = Crossed(n, lastOp.args)
                   /\ HandlesIn(trace[1]) = {}
                   /\ typing = mapped
              ELSE /\ trace[1].args = <<own>> \o Crossed(n, lastOp.args)
                   /\ typing = <<"HandlePtr">> \o mapped
           /\ Len(trace[1].args) = Len(typing)

C5_Witness ==
    /\ lastOp.kind = "call"
    /\ lastOp.name = <<"destroy", "model">>
    /\ Len(lastOp.args) = 1
    /\ trace[1].args = lastOp.args

\* C6: every text argument reaches the entry point as the byte encoding of
\* the caller's text and every other declared argument unchanged; the
\* caller gets the decoded text of the native result when the declared
\* return type is text, for every native result including a null pointer,
\* and the native result itself otherwise.
C6_TextMarshalling ==
    lastOp.kind = "call" =>
        LET n == lastOp.name
            k == Min(Len(lastOp.args), Len(DeclaredTypes[n]))
            off == IF n \in Destructors THEN 0 ELSE 1
        IN /\ \A i \in 1..k :
                trace[1].args[i + off] = Crossed(n, SubSeq(lastOp.args, 1, k))[i]
           /\ IF DeclaredRet[n] = "str"
              THEN /\ lastOp.out.t = "str"
                   /\ lastOp.nres.t = "bytes" => Utf8(lastOp.out.v) = lastOp.nres.v
              ELSE lastOp.out = lastOp.nres

\* C7 as stated: the typing of each entry point is configured exactly once
\* and never again: no binding call and no further session construction
\* writes the typing of an entry point that is already configured.
C7_ConfiguredOnce ==
    /\ \A ep \in EntryPoints : FuncOf(_CDLL.funcs, ep).writes <= 1
    /\ pc = "ready" => \A ep \in EntryPoints : FuncOf(_CDLL.funcs, ep).writes = 1

\* C7 amended: typing is written at construction time only. The load
\* writes create-handle and destroy-handle, the class body writes each
\* decorated entry point, and every session construction writes each
\* annotation-declared entry point once more, with the values it already
\* has; no other operation writes typing, and after startup the set of
\* bindings and the typing recorded for each entry point never change.
C7_ConfiguredAtConstruction ==
    [][ /\ lastOp'.kind \notin {"load_core", "class", "construct"} => _CDLL' = _CDLL
        /\ \A ep \in DOMAIN _CDLL.funcs :
              /\ ep \in DOMAIN _CDLL'.funcs
              /\ _CDLL'.funcs[ep].argtypes = _CDLL.funcs[ep].argtypes
              /\ _CDLL'.funcs[ep].restype = _CDLL.funcs[ep].restype
        /\ pc = "ready" =>
              /\ DOMAIN _CDLL.funcs = EntryPoints
              /\ DOMAIN _CDLL'.funcs = EntryPoints
              /\ classAttrs = MethodNames
              /\ classAttrs' = classAttrs
        /\ nCreated' # nCreated =>
              \A ep \in EntryPoints :
                  FuncOf(_CDLL'.funcs, ep).writes =
                      FuncOf(_CDLL.funcs, ep).writes
                          + (IF \E n \in WrapperNames : ep = PGM(n) THEN 1 ELSE 0) ]_vars

C7_Witness ==
    /\ nCreated = 2
    /\ _CDLL.funcs[PGM(<<"create", "options">>)].writes = 2
    /\ _CDLL.funcs[PGM(<<"error", "code">>)].writes = 1
    /\ lastOp.kind = "call"

\* C8: every invocation of a binding makes exactly one native call, to
\* PGM_<name>, with nothing before or after it; PGM_clear_error is called
\* only by an explicit clear_error() of the caller.
C8_OneNativeCall ==
    /\ lastOp.kind = "call" =>
          /\ Len(trace) = 1
          /\ trace[1].fn = <<"PGM">> \o lastOp.name
    /\ \A i \in DOMAIN trace :
          trace[i].fn = <<"PGM", "clear", "error">> =>
              lastOp.kind = "call" /\ lastOp.name = <<"clear", "error">>
    /\ lastOp.kind \in {"getattr", "release", "copy", "deepcopy"} => trace = <<>>

C8_Witness ==
    /\ lastOp.kind = "call"
    /\ lastOp.name = <<"clear", "error">>
    /\ trace[1].fn = <<"PGM", "clear", "error">>

LibraryFile == IF system = "Windows" THEN "_power_grid_core.dll" ELSE "_power_grid_core.so"

HandleTypingSet(lib) ==
    /\ {CreateHandle, DestroyHandle} \subseteq DOMAIN lib.funcs
    /\ lib.funcs[CreateHandle].argtypes = <<>>
    /\ lib.funcs[CreateHandle].restype = "HandlePtr"
    /\ lib.funcs[DestroyHandle].argtypes = <<"HandlePtr">>
    /\ lib.funcs[DestroyHandle].restype = "None"

\* C9 as stated: the library is loaded exactly once per process, and every
\* later invocation of the load operation returns the cached library
\* without loading again.
C9_LoadedOncePerProcess ==
    /\ nLoads <= 1
    /\ lastOp.kind = "load_core" => lastOp.lib = _CDLL.id

\* C9 amended: the module loads the library once, at import: that load
\* resolves the platform file name, configures create-handle and
\* destroy-handle and is kept in _CDLL, which is never rebound and through
\* which every session and binding makes its native calls; the load
\* function keeps no cache, so each further invocation of it loads the
\* library again and returns a new, equally configured library object.
C9_LoadedAtImport ==
    /\ pc = "start" => nLoads = 0 /\ _CDLL = NoLib
    /\ pc # "start" =>
          /\ _CDLL.id = 1
          /\ _CDLL.file = LibraryFile
          /\ HandleTypingSet(_CDLL)
    /\ \A i \in DOMAIN trace : trace[i].lib = 1
    /\ lastOp.kind = "load_core" =>
          /\ lastOp.lib = nLoads
          /\ lastLib.id = nLoads
          /\ lastLib.file = LibraryFile
          /\ HandleTypingSet(lastLib)
          /\ lastLib.id = _CDLL.id <=> nLoads = 1

C9_Witness ==
    /\ lastOp.kind = "load_core"
    /\ nLoads = 2
    /\ lastLib.id = 2
    /\ _CDLL.id = 1

\* one declaration in the form each generator reads it
AsMethod(n) ==
    [name |-> n, params |-> <<"self">> \o DeclaredTypes[n], ret |-> DeclaredRet[n]]
AsAnnotation(n) ==
    [name |-> n,
     args |-> DeclaredTypes[n]
                \o <<IF DeclaredRet[n] = "None" THEN "NoneType" ELSE DeclaredRet[n]>>]

\* what each generator derives for every declaration, computed once
MethodForm == [n \in Operations |-> make_c_binding(AsMethod(n))]
AnnotationForm == [n \in Operations |-> init_binding(AsAnnotation(n))]

\* the handle the functors of session s captured at its construction
CapturedHandle(s) == sess[s].attrs[<<"create", "options">>].handle

\* C10: for the same name, declared types, session and arguments, the
\* decorator path and the constructor path configure the same typing, pass
\* the same argument list to the same entry point and return the same
\* value, while the session is live.
C10_PathsEquivalent ==
    /\ MethodForm = AnnotationForm
    /\ pc = "ready" =>
          \A n \in Operations :
              /\ _CDLL.funcs[PGM(n)].argtypes = MethodForm[n].argtypes
              /\ _CDLL.funcs[PGM(n)].argtypes = AnnotationForm[n].argtypes
              /\ _CDLL.funcs[PGM(n)].restype = MethodForm[n].restype
              /\ _CDLL.funcs[PGM(n)].restype = AnnotationForm[n].restype
    /\ (lastOp.kind = "call" /\ sess[lastOp.s].st = "live") =>
          LET n == lastOp.name
              m == MethodForm[n]
              a == AnnotationForm[n]
              w == WrapperFunc(lastOp.s, CapturedHandle(lastOp.s), n, a.c_argtypes, a.c_restype)
          IN /\ trace[1].fn = PGM(n)
             /\ trace[1].args = cbind_inputs(n, m.c_argtypes, sess[lastOp.s]._handle, lastOp.args)
             /\ trace[1].args = WrapperFunc_inputs(w, lastOp.args)
             /\ lastOp.out = cbind_result(m.c_restype, lastOp.nres)
             /\ lastOp.out = WrapperFunc_result(w, lastOp.nres)

C10_Witness ==
    /\ lastOp.kind = "call"
    /\ lastOp.path = "WrapperFunc"
    /\ lastOp.s = 2
    /\ sess[2].st = "live"
    /\ Len(lastOp.args) > 0
====
